---- MODULE Spec2Model ----
(***************************************************************************)
(* SystemClock (src/clock.py): the scheduler thread (run), the callers'    *)
(* operations (sched, sched_abs, clear, sched_stop) and the priority queue *)
(* they share.  Every access to shared state made outside the condition's  *)
(* lock is a step of its own, so that the interleavings of the loop with   *)
(* the callers are the ones the code allows.                               *)
(***************************************************************************)
EXTENDS Integers, Sequences, FiniteSets, TLC

\* ---- bounds -------------------------------------------------------------
\* the wall clock stops at MaxTime, a time later than every finite scheduled
\* time, so that every entry with a finite time becomes due
MaxTime == 2
\* total number of insertions (calls and re-insertions) in one behaviour
MaxIns == 3

\* the widths of the model's number formats: the bits of the fraction of an
\* OSC time (32 in the source: _SECONDS_TO_OSC is 2^32) and the bits of the
\* significand of a float (53 in the source).  Both are scaled down together,
\* so that a float keeps more bits than the fraction of an OSC time and the
\* first elapsed time whose floats are coarser than one unit of OSC time,
\* 2^(MantBits - FracBits) seconds, is within the model
FracBits == 3
MantBits == 5

\* the resyncs and the samples of the clocks that are told apart
MaxResync == 2
\* calls of SystemClock(), each in a thread of its own
NAttempts == 3

\* ---- program constants --------------------------------------------------
\* int(_host_start_nanos * _NANOS_TO_OSC): _host_start_nanos is
\* int(time.time() / 1e9), which is 1 from 2001 to 2033
HostStartOsc == 4
\* math.inf, as a number larger than every finite time of the model
Inf == 1000
\* prev_time of _sched_add when the queue is empty (-1e10 in the source)
EmptyPrevTime == -1
\* _time_of_initialization, the anchor of elapsed time
TimeOfInit == 0

\* "f" is a plain callable, "r" a Routine (a thr.TimeThread with a next method).
\* The clock writes next_beat on a TimeThread and never reads it: the field
\* belongs to the task and is not part of the state below.
Tasks == {"f", "r"}

\* finite scheduled times and delays the callers and the tasks use
SchedTimes == {0, 1}
Deltas == {0, 1}

Min(a, b) == IF a <= b THEN a ELSE b

\* float addition with math.inf
TAdd(a, b) == IF a = Inf \/ b = Inf THEN Inf ELSE a + b

\* what calling getattr(task, 'next', task)() can do
\* (on a Routine or on a callable): return a number, return a bool, return
\* anything else, raise StopIteration from the frame called by run(), raise it
\* from deeper frames, raise another Exception
Outcomes == [kind : {"num"}, d : Deltas \cup {Inf}]
            \cup [kind : {"bool"}, d : {0, 1}]
            \cup [kind : {"nil", "stop_top", "stop_nested", "exc"}, d : {0}]

NoItem == [time |-> -1, task |-> "none", seq |-> 0]

\* ---- heapq on tuples (secs, task) ----------------------------------------
\* (secs1, task1) < (secs2, task2): "T", "F", or "E" when the times are equal
\* and two different task objects have to be compared (TypeError)
TupleLt(a, b) ==
    IF a.time # b.time THEN (IF a.time < b.time THEN "T" ELSE "F")
    ELSE IF a.task = b.task THEN "F"
    ELSE "E"

\* does comparing a and b compare two task objects
ComparesTasks(a, b) == a.time = b.time /\ a.task # b.task

Swap(h, i, j) == [h EXCEPT ![i] = h[j], ![j] = h[i]]

\* _siftdown(heap, startpos, pos), positions 1-based; cmp records a task comparison
RECURSIVE SiftDown(_, _, _, _)
SiftDown(h, startpos, pos, cmp) ==
    IF pos > startpos
    THEN LET parent == pos \div 2
             c == TupleLt(h[pos], h[parent])
             cmp2 == cmp \/ ComparesTasks(h[pos], h[parent])
         IN  IF c = "E" THEN [heap |-> h, err |-> TRUE, cmp |-> cmp2]
             ELSE IF c = "F" THEN [heap |-> h, err |-> FALSE, cmp |-> cmp2]
             ELSE SiftDown(Swap(h, pos, parent), startpos, parent, cmp2)
    ELSE [heap |-> h, err |-> FALSE, cmp |-> cmp]

\* _siftup(heap, pos): move the smaller child up until a leaf, then sift down
RECURSIVE SiftUp(_, _, _, _)
SiftUp(h, startpos, pos, cmp) ==
    LET endpos == Len(h)
        left == 2 * pos
    IN  IF left <= endpos
        THEN IF left + 1 <= endpos
             THEN LET c == TupleLt(h[left], h[left + 1])
                      cmp2 == cmp \/ ComparesTasks(h[left], h[left + 1])
                      child == IF c = "T" THEN left ELSE left + 1
                  IN  IF c = "E" THEN [heap |-> h, err |-> TRUE, cmp |-> cmp2]
                      ELSE SiftUp(Swap(h, pos, child), startpos, child, cmp2)
             ELSE SiftUp(Swap(h, pos, left), startpos, left, cmp)
        ELSE SiftDown(h, startpos, pos, cmp)

\* heappush(heap, item)
HeapPush(h, e) == SiftDown(Append(h, e), 1, Len(h) + 1, FALSE)

\* heappop(heap) on a non-empty heap: the item returned (lost when a comparison
\* raises) and the heap left behind
HeapPop(h) ==
    LET n == Len(h)
        lastelt == h[n]
        rest == SubSeq(h, 1, n - 1)
    IN  IF n = 1
        THEN [heap |-> rest, err |-> FALSE, cmp |-> FALSE, item |-> lastelt]
        ELSE LET r == SiftUp([rest EXCEPT ![1] = lastelt], 1, 1, FALSE)
             IN  [heap |-> r.heap, err |-> r.err, cmp |-> r.cmp, item |-> h[1]]

\* ---- state ----------------------------------------------------------------
Threads == {"loop", "caller"}

VARIABLES
    now,            \* time.time(), the wall clock
    task_queue,     \* _task_queue.queue, the heap list of (secs, task) entries
    run_sched,      \* _run_sched: "unset" before run() assigns it
    lock,           \* owner of _sched_cond's lock: "none" or "caller" (the loop
                    \* takes and releases it within one step)
    notified,       \* the loop, waiting on _sched_cond, has been notified
    wait_deadline,  \* wall-clock time at which the loop's timed wait expires
    pc,             \* position of the loop thread and of the caller thread
    now_l,          \* run(): now (0 once the thread has ended)
    sched_point,    \* run(): sched_point
    item,           \* run(): item, the entry popped (until the loop tests the
                    \* queue again)
    sa,             \* locals of _sched_add in each thread: secs, task, prev_time
    call,           \* the caller's last call, when it ended at once without
                    \* reaching the with block: which call, and how it ended
    printed,        \* run() has printed an exception since it last tested the
                    \* queue in its third loop
    next_seq,       \* insertion number given to the next entry put (history)
    budget,         \* insertions still allowed to start (bound of the model)
    clear_pending,  \* entries pending when the clear() in progress took the lock
    cleared,        \* entries pending at a clear() that has returned and neither
                    \* removed nor executed before it returned (history)
    delta,          \* run(): delta, the number returned by the task
    last_exec       \* the task run() has called since it last tested the queue
                    \* in its third loop, and what the task did (history)

cvars == << now, task_queue, run_sched, lock, notified, wait_deadline,
           pc, now_l, sched_point, item, sa, call, printed, next_seq,
           budget, clear_pending, cleared, delta, last_exec >>

\* ---- responders: state (src/sc3/base/responsedefs.py) -------------------------
\* the OscFunc objects the program constructs
Handles == {1, 2}
\* OscFunc.default_dispatcher, an OSCMessageDispatcher, and
\* OscFunc.default_matching_dispatcher, an OSCMessagePatternDispatcher
Dispatchers == {"default", "matching"}
\* None where a receive port is expected
NonePort == 0
\* None where a NetAddr is expected
NoneAddr == [addr |-> "None", port |-> NonePort]
\* None where an argument template is expected
NoneTemplate == [given |-> FALSE, slots |-> << >>]
\* None where a responder function is expected
NoneFunc == [kind |-> "None", name |-> 0, frees |-> 0, os |-> 0]
\* an OscFunc that has not been constructed: the fields __init__ gives it
\* (AbstractResponderFunc.__init__ and the arguments' defaults)
NoProxy == [made |-> FALSE, path |-> << >>, src_id |-> NoneAddr,
            recv_port |-> NonePort, arg_template |-> NoneTemplate,
            func |-> NoneFunc, permanent |-> FALSE, enabled |-> FALSE,
            dispatcher |-> "default"]
NoMsg == [path |-> << >>, addr |-> NoneAddr, recv_port |-> NonePort,
          args |-> << >>]
NoOp == [name |-> "none", h |-> 0, was |-> "new", d |-> "None", msg |-> NoMsg]
NoMatch == [src_id |-> NoneAddr, recv_port |-> NonePort,
            arg_template |-> NoneTemplate, addr |-> NoneAddr,
            port |-> NonePort, args |-> << >>]

VARIABLES
    fp,             \* the OscFunc objects: their attributes
    active,         \* dispatcher.active: the dict, as the list of its items
                    \* (key, list of wrapped functions) in insertion order
    wrapped_funcs,  \* dispatcher.wrapped_funcs: OscFunc -> wrapped function
    registered,     \* dispatcher.registered
    recv_funcs,     \* the dispatchers main calls for each incoming message
    cmd_period,     \* the OscFuncs whose __on_cmd_period CmdPeriod holds
    notifications,  \* NotificationCenter: (OscFunc, dispatcher) registered for
                    \* the message 'function'
    all_func_proxies, \* OscFunc._all_func_proxies
    calls,          \* the functions of the user the last operation made the
                    \* program call, in order, each with whether the OscFunc
                    \* it was made one-shot for was enabled then (history)
    raised,         \* the exception the last operation raised, or "none"
    op,             \* the last operation, the OscFunc it was called on and
                    \* the state that OscFunc was in at the call (history)
    reg_order,      \* per dispatcher, the OscFuncs added and not removed, in
                    \* the order of the add() calls (history)
    m_in,           \* matchers: the selectors of an OscFunc and a message
    m_out           \* matchers: what the wrapped function did with the message

rvars == << fp, active, wrapped_funcs, registered, recv_funcs, cmd_period,
            notifications, all_func_proxies, calls, raised, op, reg_order,
            m_in, m_out >>

ResponderInit ==
    /\ fp = [h \in Handles |-> NoProxy]
    /\ active = [d \in Dispatchers |-> << >>]
    /\ wrapped_funcs = [d \in Dispatchers |-> [h \in {} |-> NoneFunc]]
    /\ registered = [d \in Dispatchers |-> FALSE]
    /\ recv_funcs = {}
    /\ cmd_period = {}
    /\ notifications = {}
    /\ all_func_proxies = {}
    /\ calls = << >>
    /\ raised = "none"
    /\ op = NoOp
    /\ reg_order = [d \in Dispatchers |-> << >>]

\* ---- time conversions: state (src/clock.py) -----------------------------------
VARIABLES
    conv,           \* a conversion to OSC time and back: the elapsed time and
                    \* the offset given, and what the two functions returned
    host_osc_offset,    \* _host_osc_offset: the number of the sample of the
                        \* clocks it was computed from
    elapsed_osc_offset, \* _elapsed_osc_offset
    run_resync,     \* _run_resync
    rt,             \* the resync thread and the thread that calls
                    \* _sched_cleanup: their positions, whether the waiting
                    \* thread has been notified, how its last wait ended, and
                    \* the number of resyncs done (history)
    rdr,            \* a thread that converts times: its position, the offset
                    \* it loaded, and the values _elapsed_osc_offset has had
                    \* since the conversion began (history)
    instance,       \* SystemClock._instance: 0 for None, or the call of
                    \* SystemClock() that made the object
    new             \* the position of each call of SystemClock() in __new__

tvars == << conv, host_osc_offset, elapsed_osc_offset, run_resync, rt, rdr,
            instance, new >>

\* _sched_init has returned: the first offset is computed from sample 0, the
\* resync thread is started and may not have executed its first line yet
TimeInit ==
    /\ conv = [t |-> 0, offset |-> 0, osc |-> 0, back |-> 0, done |-> FALSE]
    /\ host_osc_offset = 0
    /\ elapsed_osc_offset = HostStartOsc + 0
    /\ run_resync = FALSE
    /\ rt = [pc |-> "start", cleanup |-> "idle", notified |-> FALSE,
             woke |-> "none", resyncs |-> 0]
    /\ rdr = [pc |-> "idle", seen |-> 0, valid |-> {}]
    /\ instance = 0
    /\ new = [a \in 1 .. NAttempts |-> "idle"]

vars == << cvars, rvars, tvars >>

NoSa == [secs |-> 0, task |-> "none", prev |-> 0]
NoExec == [kind |-> "none", task |-> "none"]
NoCall == [op |-> "none", res |-> "none"]

\* SystemClock.__new__ has returned: the thread is started, run() may not have
\* executed its first line yet; the queue is empty
ClockInit ==
    /\ now = 0
    /\ task_queue = << >>
    /\ run_sched = "unset"
    /\ lock = "none"
    /\ notified = FALSE
    /\ wait_deadline = 0
    /\ pc = [loop |-> "init", caller |-> "idle"]
    /\ now_l = 0
    /\ sched_point = 0
    /\ item = NoItem
    /\ sa = [t \in Threads |-> NoSa]
    /\ call = NoCall
    /\ printed = FALSE
    /\ next_seq = 1
    /\ budget = MaxIns
    /\ clear_pending = {}
    /\ cleared = {}
    /\ delta = 0
    /\ last_exec = NoExec

Init ==
    /\ ClockInit /\ ResponderInit /\ m_in = NoMatch /\ m_out = "none"
    /\ TimeInit

LoopWaiting == pc["loop"] \in {"l1_wait", "l2_wait"}

\* Condition.notify_all(): wakes the loop if it is waiting
NotifyAll == notified' = (notified \/ LoopWaiting)

\* the entry the loop has popped and not yet begun to execute
HeldByLoop == IF pc["loop"] = "l3_exec" THEN {item.seq} ELSE {}

SeqsOf(q) == {q[i].seq : i \in 1 .. Len(q)}

\* ---- the wall clock ---------------------------------------------------------
Tick ==
    /\ now < MaxTime
    /\ now' = now + 1
    /\ UNCHANGED << rvars, tvars >>
    /\ UNCHANGED << task_queue, run_sched, lock, notified,
                    wait_deadline, pc, now_l, sched_point, item, sa, call,
                    printed, next_seq, budget, clear_pending,
                    cleared, delta, last_exec >>

\* ---- the scheduler thread: run() ---------------------------------------------
Goto(th, l) == pc' = [pc EXCEPT ![th] = l]

hist0 == << next_seq, budget, clear_pending, cleared, last_exec >>
hist == << hist0, delta >>
callerSide == << sa, call >>

\* self._run_sched = True
RunStart ==
    /\ pc["loop"] = "init"
    /\ run_sched' = "true"
    /\ Goto("loop", "l1_empty")
    /\ UNCHANGED << rvars, tvars >>
    /\ UNCHANGED << now, task_queue, lock, notified, wait_deadline,
                    now_l, sched_point, item, printed, callerSide, hist >>

\* while self._task_queue.empty(): ... ; now = 0 (now is not read between
\* the end of the third loop and this assignment).  The wall clock of the
\* model starts at _time_of_initialization, which time.time() gave: the 0 of
\* the source is a time before _time_of_initialization + secs for every secs
\* of the model
L1Empty ==
    /\ pc["loop"] = "l1_empty"
    /\ IF task_queue = << >>
       THEN Goto("loop", "l1_acq")
       ELSE Goto("loop", "l2_empty")
    /\ now_l' = 0 - Inf
    /\ UNCHANGED << rvars, tvars >>
    /\ UNCHANGED << now, task_queue, run_sched, lock, notified,
                    wait_deadline, sched_point, item, printed, callerSide, hist >>

\* with self._sched_cond: self._sched_cond.wait() -- takes the lock and
\* releases it again as a waiter
L1Acq ==
    /\ pc["loop"] = "l1_acq"
    /\ lock = "none"
    /\ notified' = FALSE
    /\ Goto("loop", "l1_wait")
    /\ UNCHANGED << rvars, tvars >>
    /\ UNCHANGED << now, task_queue, run_sched, lock, wait_deadline,
                    now_l, sched_point, item, printed, callerSide, hist >>

\* the untimed wait returns only when notified; the lock is re-acquired and
\* released on leaving the with block
L1Wake ==
    /\ pc["loop"] = "l1_wait"
    /\ notified
    /\ lock = "none"
    /\ notified' = FALSE
    /\ Goto("loop", "l1_flag")
    /\ UNCHANGED << rvars, tvars >>
    /\ UNCHANGED << now, task_queue, run_sched, lock, wait_deadline,
                    now_l, sched_point, item, printed, callerSide, hist >>

\* if not self._run_sched: return
L1Flag ==
    /\ pc["loop"] = "l1_flag"
    /\ Goto("loop", IF run_sched = "false" THEN "done" ELSE "l1_empty")
    /\ UNCHANGED << rvars, tvars >>
    /\ UNCHANGED << now, task_queue, run_sched, lock, notified,
                    wait_deadline, now_l, sched_point, item, printed,
                    callerSide, hist >>

\* while not self._task_queue.empty():
L2Empty ==
    /\ pc["loop"] = "l2_empty"
    /\ Goto("loop", IF task_queue = << >> THEN "l3_empty" ELSE "l2_sample")
    /\ UNCHANGED << rvars, tvars >>
    /\ UNCHANGED << now, task_queue, run_sched, lock, notified,
                    wait_deadline, now_l, sched_point, item, printed,
                    callerSide, hist >>

\* now = time.time(); sched_secs = queue[0][0]; sched_point = ...;
\* if now > sched_point: break.  queue[0] raises IndexError outside any try
\* when the queue has been emptied since the check: the thread ends.
L2Sample ==
    /\ pc["loop"] = "l2_sample"
    /\ IF task_queue = << >>
       THEN Goto("loop", "dead") /\ now_l' = 0 /\ UNCHANGED sched_point
       ELSE LET sp == TAdd(TimeOfInit, task_queue[1].time)
            IN  /\ now_l' = now
                /\ IF now > sp
                   THEN Goto("loop", "l3_empty") /\ UNCHANGED sched_point
                   ELSE Goto("loop", "l2_acq") /\ sched_point' = sp
    /\ UNCHANGED << rvars, tvars >>
    /\ UNCHANGED << now, task_queue, run_sched, lock, notified,
                    wait_deadline, item, printed, callerSide, hist >>

\* with self._sched_cond: self._sched_cond.wait(sched_point - now); a timeout
\* of math.inf raises OverflowError in wait(), outside any try.  The clock of
\* the model stops at MaxTime, so no timeout lasts beyond it.
L2Acq ==
    /\ pc["loop"] = "l2_acq"
    /\ lock = "none"
    /\ notified' = FALSE
    /\ IF sched_point = Inf
       THEN Goto("loop", "dead") /\ now_l' = 0 /\ UNCHANGED wait_deadline
       ELSE /\ wait_deadline' = Min(now + (sched_point - now_l), MaxTime)
            /\ Goto("loop", "l2_wait")
            /\ UNCHANGED now_l
    /\ sched_point' = 0
    /\ UNCHANGED << rvars, tvars >>
    /\ UNCHANGED << now, task_queue, run_sched, lock,
                    item, printed, callerSide, hist >>

\* the timed wait returns when notified or when the timeout has elapsed
L2Wake ==
    /\ pc["loop"] = "l2_wait"
    /\ notified \/ now >= wait_deadline
    /\ lock = "none"
    /\ notified' = FALSE
    /\ wait_deadline' = 0
    /\ Goto("loop", "l2_flag")
    /\ UNCHANGED << rvars, tvars >>
    /\ UNCHANGED << now, task_queue, run_sched, lock,
                    now_l, sched_point, item, printed, callerSide, hist >>

\* if not self._run_sched: return
L2Flag ==
    /\ pc["loop"] = "l2_flag"
    /\ IF run_sched = "false"
       THEN Goto("loop", "done") /\ now_l' = 0
       ELSE Goto("loop", "l2_empty") /\ UNCHANGED now_l
    /\ UNCHANGED << rvars, tvars >>
    /\ UNCHANGED << now, task_queue, run_sched, lock, notified,
                    wait_deadline, sched_point, item, printed,
                    callerSide, hist >>

\* while not self._task_queue.empty() ...
L3Empty ==
    /\ pc["loop"] = "l3_empty"
    /\ Goto("loop", IF task_queue = << >> THEN "l1_empty" ELSE "l3_peek")
    /\ printed' = FALSE
    /\ last_exec' = NoExec
    /\ UNCHANGED << rvars, tvars >>
    /\ UNCHANGED << now, task_queue, run_sched, lock, notified,
                    wait_deadline, now_l, sched_point, item, callerSide,
                    next_seq, budget, clear_pending, cleared,
                    delta >>

\* ... and now >= self._time_of_initialization + self._task_queue.queue[0][0]
L3Peek_strict ==
    /\ pc["loop"] = "l3_peek"
    /\ IF task_queue = << >>
       THEN Goto("loop", "dead") /\ now_l' = 0
       ELSE /\ Goto("loop", IF now_l > TAdd(TimeOfInit, task_queue[1].time)
                            THEN "l3_get" ELSE "l1_empty")
            /\ UNCHANGED now_l
    /\ UNCHANGED << rvars, tvars >>
    /\ UNCHANGED << now, task_queue, run_sched, lock, notified,
                    wait_deadline, sched_point, item, printed,
                    callerSide, hist >>
L3Peek ==
    /\ pc["loop"] = "l3_peek"
    /\ IF task_queue = << >>
       THEN Goto("loop", "dead") /\ now_l' = 0
       ELSE /\ Goto("loop", IF now_l >= TAdd(TimeOfInit, task_queue[1].time)
                            THEN "l3_get" ELSE "l1_empty")
            /\ UNCHANGED now_l
    /\ UNCHANGED << rvars, tvars >>
    /\ UNCHANGED << now, task_queue, run_sched, lock, notified,
                    wait_deadline, sched_point, item, printed,
                    callerSide, hist >>

\* item = self._task_queue.get(): blocks while the queue is empty; a TypeError
\* of the heap's comparison ends the thread and the popped entry is lost.
L3Get ==
    /\ pc["loop"] = "l3_get"
    /\ task_queue # << >>
    /\ LET r == HeapPop(task_queue)
       IN  /\ task_queue' = r.heap
           /\ IF r.err
              THEN Goto("loop", "dead") /\ now_l' = 0 /\ UNCHANGED item
              ELSE /\ item' = r.item
                   /\ Goto("loop", "l3_exec")
                   /\ UNCHANGED now_l
    /\ UNCHANGED << rvars, tvars >>
    /\ UNCHANGED << now, run_sched, lock, notified, wait_deadline,
                    sched_point, printed, callerSide, next_seq, budget,
                    clear_pending, cleared, delta, last_exec >>

\* the test without "and not isinstance(delta, bool)"
IsNumericBool(o) == o.kind \in {"num", "bool"}

\* isinstance(delta, (int, float)) and not isinstance(delta, bool)
IsNumeric(o) == o.kind = "num"

\* the inner except clause re-raising every StopIteration
IsReportedAll(o) == o.kind \in {"stop_top", "stop_nested", "exc"}

\* is the exception printed by traceback.print_exception: every Exception but
\* a StopIteration with len(inspect.trace()) <= 2
IsReported(o) == o.kind \in {"stop_nested", "exc"}

\* time = sched_time + delta
ReinsertTime(sched_time, d, wall) == TAdd(sched_time, d)

\* run() without the outer except clause: an Exception ends the thread
ExecNextNoCatch(o) ==
    IF IsNumeric(o) THEN "sa_empty"
    ELSE IF o.kind = "exc" THEN "dead" ELSE "l3_empty"

\* where run() goes on after the call of the task: into _sched_add for a
\* number, back to the test of the third loop otherwise (every Exception is
\* caught by one of the two except clauses)
ExecNext(o) == IF IsNumeric(o) THEN "sa_empty" ELSE "l3_empty"

\* delta = getattr(task, 'next', task)() and what follows it, up to the call
\* of _sched_add(sched_time + delta, task)
L3Exec ==
    /\ pc["loop"] = "l3_exec"
    /\ \E o \in Outcomes :
        /\ last_exec' = [kind |-> o.kind, task |-> item.task]
        /\ Goto("loop", ExecNext(o))
        /\ IF ExecNext(o) = "sa_empty"
           THEN /\ budget > 0
                /\ ReinsertTime(item.time, o.d, now) \in SchedTimes \cup {Inf}
                /\ budget' = budget - 1
                /\ delta' = o.d
                /\ sa' = [sa EXCEPT !["loop"] =
                            [secs |-> ReinsertTime(item.time, o.d, now),
                             task |-> item.task, prev |-> 0]]
                /\ UNCHANGED << printed, item >>
           ELSE /\ printed' = IsReported(o)
                /\ item' = NoItem
                /\ UNCHANGED << sa, budget, delta >>
    /\ cleared' = {}
    /\ UNCHANGED << rvars, tvars >>
    /\ UNCHANGED << now, task_queue, run_sched, lock, notified,
                    wait_deadline, now_l, sched_point, call,
                    next_seq, clear_pending >>

\* ---- _sched_add(secs, task), run by the loop (without the lock) and by the
\* ---- caller (inside sched / sched_abs, holding the lock) ----------------------

\* the call ends with an exception: in run() it is caught and printed and the
\* loop goes on; in the caller it leaves the with block and reaches the user
SaRaise(th) ==
    /\ sa' = [sa EXCEPT ![th] = NoSa]
    /\ IF th = "loop"
       THEN /\ printed' = TRUE
            /\ item' = NoItem
            /\ delta' = 0
            /\ Goto(th, "l3_empty")
            /\ UNCHANGED << lock, call >>
       ELSE /\ lock' = "none"
            /\ Goto(th, "idle")
            /\ UNCHANGED << printed, item, delta, call >>

\* the call returns
SaReturn(th) ==
    /\ sa' = [sa EXCEPT ![th] = NoSa]
    /\ IF th = "loop"
       THEN /\ item' = NoItem
            /\ delta' = 0
            /\ Goto(th, "l3_empty")
            /\ UNCHANGED << lock, call, printed >>
       ELSE /\ lock' = "none"
            /\ Goto(th, "idle")
            /\ UNCHANGED << printed, item, delta, call >>

\* if self._task_queue.empty(): prev_time = -1e10
SaEmpty(th) ==
    /\ pc[th] = "sa_empty"
    /\ IF task_queue = << >>
       THEN /\ sa' = [sa EXCEPT ![th].prev = EmptyPrevTime]
            /\ Goto(th, "sa_put")
       ELSE /\ Goto(th, "sa_peek")
            /\ UNCHANGED sa
    /\ UNCHANGED << rvars, tvars >>
    /\ UNCHANGED << now, task_queue, run_sched, lock, notified,
                    wait_deadline, now_l, sched_point, item, call, printed,
                    hist >>

\* else: prev_time = self._task_queue.queue[0][0]
SaPeek(th) ==
    /\ pc[th] = "sa_peek"
    /\ IF task_queue = << >>
       THEN SaRaise(th)
       ELSE /\ sa' = [sa EXCEPT ![th].prev = task_queue[1].time]
            /\ Goto(th, "sa_put")
            /\ UNCHANGED << lock, call, printed, item, delta >>
    /\ UNCHANGED << rvars, tvars >>
    /\ UNCHANGED << now, task_queue, run_sched, notified,
                    wait_deadline, now_l, sched_point, hist0 >>

\* self._task_queue.put(item); task_done()
SaPut(th) ==
    /\ pc[th] = "sa_put"
    /\ LET e == [time |-> sa[th].secs, task |-> sa[th].task, seq |-> next_seq]
           r == HeapPush(task_queue, e)
       IN  /\ task_queue' = r.heap
           /\ next_seq' = next_seq + 1
           /\ IF r.err
              THEN SaRaise(th)
              ELSE /\ Goto(th, "sa_cmp")
                   /\ UNCHANGED << sa, lock, call, printed, item, delta >>
    /\ UNCHANGED << rvars, tvars >>
    /\ UNCHANGED << now, run_sched, notified, wait_deadline, now_l, sched_point,
                    budget, clear_pending, cleared, last_exec >>

\* if self._task_queue.queue[0][0] != prev_time:
SaCmp(th) ==
    /\ pc[th] = "sa_cmp"
    /\ IF task_queue = << >>
       THEN SaRaise(th)
       ELSE IF task_queue[1].time # sa[th].prev
            THEN /\ Goto(th, "sa_notify")
                 /\ UNCHANGED << sa, lock, call, printed, item, delta >>
            ELSE SaReturn(th)
    /\ UNCHANGED << rvars, tvars >>
    /\ UNCHANGED << now, task_queue, run_sched, notified,
                    wait_deadline, now_l, sched_point, hist0 >>

\* with self._sched_cond: self._sched_cond.notify_all()
SaNotify(th) ==
    /\ pc[th] = "sa_notify"
    /\ lock \in {"none", th}
    /\ NotifyAll
    /\ SaReturn(th)
    /\ UNCHANGED << rvars, tvars >>
    /\ UNCHANGED << now, task_queue, run_sched, wait_deadline, now_l,
                    sched_point, hist0 >>

\* ---- the caller's operations --------------------------------------------------

\* SystemClock.sched(delta, item) up to the with statement
Sched(d, task) ==
    /\ pc["caller"] = "idle"
    /\ LET seconds == TAdd(now - TimeOfInit, d)
       IN  IF seconds = Inf
           THEN /\ call' = [op |-> "sched", res |-> "ok"]
                /\ UNCHANGED << pc, sa, budget >>
           ELSE /\ budget > 0
                /\ seconds \in SchedTimes
                /\ budget' = budget - 1
                /\ sa' = [sa EXCEPT !["caller"] =
                            [secs |-> seconds, task |-> task, prev |-> 0]]
                /\ call' = NoCall
                /\ Goto("caller", "c_acq")
    /\ UNCHANGED << rvars, tvars >>
    /\ UNCHANGED << now, task_queue, run_sched, lock, notified,
                    wait_deadline, now_l, sched_point, item, printed, next_seq,
                    clear_pending, cleared, delta, last_exec >>

\* SystemClock.sched_abs(time, item) up to the call of _sched_add: the lock
\* is free whenever the caller is between two calls
SchedAbs(time, task) ==
    /\ pc["caller"] = "idle"
    /\ IF time = Inf
       THEN /\ call' = [op |-> "sched_abs", res |-> "error"]
            /\ UNCHANGED << pc, sa, budget, lock >>
       ELSE /\ budget > 0
            /\ lock = "none"
            /\ budget' = budget - 1
            /\ sa' = [sa EXCEPT !["caller"] =
                        [secs |-> time, task |-> task, prev |-> 0]]
            /\ call' = NoCall
            /\ lock' = "caller"
            /\ Goto("caller", "sa_empty")
    /\ UNCHANGED << rvars, tvars >>
    /\ UNCHANGED << now, task_queue, run_sched, notified,
                    wait_deadline, now_l, sched_point, item, printed, next_seq,
                    clear_pending, cleared, delta, last_exec >>

\* sched(): with cls._instance._sched_cond: cls._instance._sched_add(...)
CAcq ==
    /\ pc["caller"] = "c_acq"
    /\ lock = "none"
    /\ lock' = "caller"
    /\ Goto("caller", "sa_empty")
    /\ UNCHANGED << rvars, tvars >>
    /\ UNCHANGED << now, task_queue, run_sched, notified,
                    wait_deadline, now_l, sched_point, item, printed,
                    callerSide, hist >>

\* SystemClock.clear() is called: with cls._instance._sched_cond:
Clear ==
    /\ pc["caller"] = "idle"
    /\ lock = "none"
    /\ lock' = "caller"
    /\ call' = NoCall
    /\ clear_pending' = SeqsOf(task_queue)
    /\ Goto("caller", "cl_empty")
    /\ UNCHANGED << rvars, tvars >>
    /\ UNCHANGED << now, task_queue, run_sched, notified,
                    wait_deadline, now_l, sched_point, item, printed,
                    sa, next_seq, budget, cleared, delta, last_exec >>

\* while not queue.empty(): ... ; notify_all(); leave the with block
ClEmpty ==
    /\ pc["caller"] = "cl_empty"
    /\ IF task_queue = << >>
       THEN /\ NotifyAll
            /\ lock' = "none"
            /\ cleared' = (cleared \cup clear_pending) \cap HeldByLoop
            /\ clear_pending' = {}
            /\ Goto("caller", "idle")
       ELSE /\ Goto("caller", "cl_get")
            /\ UNCHANGED << notified, lock, cleared, clear_pending >>
    /\ UNCHANGED << rvars, tvars >>
    /\ UNCHANGED << now, task_queue, run_sched, wait_deadline, now_l,
                    sched_point, item, printed, callerSide, next_seq, budget,
                    delta, last_exec >>

\* cls._instance._task_queue.get(): blocks while the queue is empty
ClGet ==
    /\ pc["caller"] = "cl_get"
    /\ task_queue # << >>
    /\ LET r == HeapPop(task_queue)
       IN  /\ task_queue' = r.heap
           /\ IF r.err
              THEN /\ lock' = "none"
                   /\ clear_pending' = {}
                   /\ Goto("caller", "idle")
              ELSE /\ Goto("caller", "cl_empty")
                   /\ UNCHANGED << lock, clear_pending >>
    /\ UNCHANGED << rvars, tvars >>
    /\ UNCHANGED << now, run_sched, notified, wait_deadline, now_l,
                    sched_point, item, printed, callerSide, next_seq, budget,
                    cleared, delta, last_exec >>

\* SystemClock.sched_stop() is called: with self._sched_cond:
\* if self._run_sched: self._run_sched = False; notify_all().  Reading
\* _run_sched before run() has assigned it raises AttributeError.
SchedStop ==
    /\ pc["caller"] = "idle"
    /\ lock = "none"
    /\ IF run_sched = "unset"
       THEN /\ call' = [op |-> "sched_stop", res |-> "error"]
            /\ UNCHANGED << pc, run_sched, notified >>
       ELSE /\ IF run_sched = "true"
               THEN run_sched' = "false" /\ NotifyAll
               ELSE UNCHANGED << run_sched, notified >>
            /\ call' = NoCall
            /\ Goto("caller", "st_join")
    /\ UNCHANGED << rvars, tvars >>
    /\ UNCHANGED << now, task_queue, lock, wait_deadline, now_l,
                    sched_point, item, printed, sa, hist >>

\* self.join(): returns once the scheduler thread has ended
StJoin ==
    /\ pc["caller"] = "st_join"
    /\ pc["loop"] \in {"done", "dead"}
    /\ Goto("caller", "idle")
    /\ UNCHANGED << rvars, tvars >>
    /\ UNCHANGED << now, task_queue, run_sched, lock, notified,
                    wait_deadline, now_l, sched_point, item, printed,
                    callerSide, hist >>

\* ---- the specification --------------------------------------------------------
LoopStep ==
    \/ RunStart \/ L1Empty \/ L1Acq \/ L1Wake \/ L1Flag
    \/ L2Empty \/ L2Sample \/ L2Acq \/ L2Wake \/ L2Flag
    \/ L3Empty \/ L3Peek \/ L3Get \/ L3Exec
    \/ SaEmpty("loop") \/ SaPeek("loop") \/ SaPut("loop") \/ SaCmp("loop")
    \/ SaNotify("loop")

CallerStep ==
    \/ CAcq \/ ClEmpty \/ ClGet \/ StJoin
    \/ SaEmpty("caller") \/ SaPeek("caller") \/ SaPut("caller")
    \/ SaCmp("caller") \/ SaNotify("caller")

CallerCall ==
    \/ \E d \in Deltas \cup {Inf}, t \in Tasks : Sched(d, t)
    \/ \E s \in SchedTimes \cup {Inf}, t \in Tasks : SchedAbs(s, t)
    \/ Clear
    \/ SchedStop

Next == Tick \/ LoopStep \/ CallerStep \/ CallerCall

Spec == Init /\ [][Next]_vars

\* the scheduling the threads get: the clock advances, and a thread that can
\* take a step again and again (a free lock, a notified or timed-out wait)
\* takes it; the caller is not obliged to make further calls
FairSpec == Spec /\ WF_vars(Tick) /\ SF_vars(LoopStep) /\ SF_vars(CallerStep)

\* ---- properties -----------------------------------------------------------------
LoopExited == pc["loop"] \in {"done", "dead"}
BeforePut == {"sa_empty", "sa_peek", "sa_put"}
InSchedAdd == BeforePut \cup {"sa_cmp", "sa_notify"}

\* the loop pops an entry / calls the task it has popped
PopStep == pc["loop"] = "l3_get" /\ pc'["loop"] = "l3_exec"
ExecStep == pc["loop"] = "l3_exec" /\ pc'["loop"] # "l3_exec"

\* thread th leaves the part of _sched_add that ends with the put
PutOrGiveUp(th) == pc[th] \in BeforePut /\ pc'[th] \notin BeforePut

\* the entry (secs, task) has just been added to the queue, and nothing else
JustPut(secs, task) ==
    /\ Len(task_queue') = Len(task_queue) + 1
    /\ \E i \in 1 .. Len(task_queue') :
           task_queue'[i] = [time |-> secs, task |-> task, seq |-> next_seq]

Pending(s) == \E i \in 1 .. Len(task_queue) : task_queue[i].seq = s
PendingFinite(s) ==
    \E i \in 1 .. Len(task_queue) :
        task_queue[i].seq = s /\ task_queue[i].time # Inf

\* C1: the entry the loop pops is earlier than every entry left in the queue,
\* or has the same time and was inserted before it, and the heap never compares
\* two task objects
PopOrdered ==
    \A i \in 1 .. Len(task_queue') :
        \/ item'.time < task_queue'[i].time
        \/ item'.time = task_queue'[i].time /\ item'.seq < task_queue'[i].seq
PutCompares(th) ==
    /\ pc[th] = "sa_put" /\ pc'[th] # "sa_put"
    /\ HeapPush(task_queue, [time |-> sa[th].secs, task |-> sa[th].task,
                             seq |-> next_seq]).cmp
GetCompares(th, l) ==
    /\ pc[th] = l /\ pc'[th] # l
    /\ HeapPop(task_queue).cmp
C1_ExecutionOrder ==
    [][ /\ PopStep => PopOrdered
        /\ ~PutCompares("loop") /\ ~PutCompares("caller")
        /\ ~GetCompares("loop", "l3_get") /\ ~GetCompares("caller", "cl_get")
      ]_vars

\* C2: no entry that was in the queue when clear() took the lock begins to
\* execute after that clear() has returned
C2_ClearedNeverExecutes == [][ExecStep => item.seq \notin cleared]_vars

\* C3: once sched_stop() has cleared the flag and notified, the loop exits and
\* the join returns
C3_StopJoins ==
    (pc["caller"] = "st_join") ~> (pc["caller"] = "idle" /\ LoopExited)

C5_InsertionEventuallyRuns ==
    \A s \in 1 .. MaxIns :
        PendingFinite(s) ~> (~Pending(s) \/ run_sched = "false" \/ LoopExited)

\* C6: a Routine popped from an entry at T that returns the number d is put
\* back as the entry (T + d, task): the call of _sched_add made for it does not
\* end before that put
C6_ReinsertedAtSchedTimePlusDelta ==
    [][(PutOrGiveUp("loop") /\ item.task = "r")
          => JustPut(TAdd(item.time, delta), item.task)]_vars

\* a call of _sched_add made by the caller (by sched or by sched_abs, under
\* the lock) puts the entry it was given, and only that
CallerPutsItsEntry ==
    PutOrGiveUp("caller") => JustPut(sa["caller"].secs, sa["caller"].task)

\* C7: sched(delta, task) with an infinite elapsed_time() + delta returns
\* without error and leaves the queue as it is; with a finite one it hands
\* (elapsed_time() + delta, task) to _sched_add, which puts that entry and
\* only that
C7_SchedDropsInfinity ==
    [][ /\ (call' # call /\ call'.op = "sched")
            => (call'.res = "ok" /\ task_queue' = task_queue /\ pc' = pc)
        /\ (pc["caller"] = "idle" /\ pc'["caller"] = "c_acq")
            => /\ (sa'["caller"].secs - (now - TimeOfInit)) \in Deltas
               /\ task_queue' = task_queue
        /\ CallerPutsItsEntry ]_vars

\* C8: sched_abs(time, task) with an infinite time fails and leaves the queue
\* as it is; with a finite time it hands (time, task) to _sched_add, which
\* puts that entry and only that
C8_SchedAbsRejectsInfinity ==
    [][ /\ (call' # call /\ call'.op = "sched_abs")
            => (call'.res = "error" /\ task_queue' = task_queue /\ pc' = pc)
        /\ (pc["caller"] = "idle" /\ pc'["caller"] = "sa_empty")
            => /\ sa'["caller"].secs \in SchedTimes
               /\ task_queue' = task_queue
        /\ CallerPutsItsEntry ]_vars

\* C9 as stated: the scheduler never puts a plain callable back into the queue
C9_CallableNeverReinserted ==
    [][(pc["loop"] = "sa_put" /\ pc'["loop"] # "sa_put")
          => sa["loop"].task # "f"]_vars

\* C9 amended: a plain callable that returns anything but a number, or raises,
\* is not handed to _sched_add and the queue is as it was; one that returns the
\* number d is handed to _sched_add with the time T + d, and the loop re-inserts
\* a callable only after such a return
C9_CallableReinsertedOnlyOnNumber ==
    /\ [][(ExecStep /\ item.task = "f")
            => /\ task_queue' = task_queue
               /\ IF last_exec'.kind = "num"
                  THEN /\ pc'["loop"] = "sa_empty"
                       /\ sa'["loop"].secs = TAdd(item.time, delta')
                       /\ sa'["loop"].task = "f"
                  ELSE /\ pc'["loop"] = "l3_empty"
                       /\ sa'["loop"] = NoSa]_vars
    /\ []((pc["loop"] \in InSchedAdd /\ sa["loop"].task = "f")
            => last_exec = [kind |-> "num", task |-> "f"])

\* C9 witness: the callable returned a number and the loop has put it back
C9_Witness ==
    /\ pc["loop"] = "sa_cmp"
    /\ last_exec = [kind |-> "num", task |-> "f"]
    /\ \E i \in 1 .. Len(task_queue) :
           task_queue[i].task = "f" /\ task_queue[i].seq = next_seq - 1

\* C10: a Routine that raises StopIteration from its own frame when resumed is
\* not handed to _sched_add, the queue is as it was, nothing is printed and the
\* loop goes on
C10_TerminationIsCompletion ==
    [][(ExecStep /\ item.task = "r" /\ last_exec'.kind = "stop_top")
          => /\ task_queue' = task_queue
             /\ pc'["loop"] = "l3_empty"
             /\ sa'["loop"] = NoSa
             /\ budget' = budget
             /\ ~printed']_vars

\* C10 witness: the only entry ever inserted held the Routine, its first
\* resumption terminated, and the loop goes on to test the queue
C10_Witness ==
    /\ last_exec = [kind |-> "stop_top", task |-> "r"]
    /\ next_seq = 2
    /\ budget = MaxIns - 1
    /\ task_queue = << >>
    /\ ~printed
    /\ pc["loop"] = "l3_empty"


\* ---- responders: the program (src/sc3/base/responsedefs.py) -------------------
\* the responder state as one value, which the operators below transform; an
\* operation that raises leaves the state as it was when the exception left it
RState ==
    [fp |-> fp, active |-> active, wrapped_funcs |-> wrapped_funcs,
     registered |-> registered, recv_funcs |-> recv_funcs,
     cmd_period |-> cmd_period, notifications |-> notifications,
     all_func_proxies |-> all_func_proxies, calls |-> << >>,
     raised |-> "none", reg_order |-> reg_order]
Becomes(st) ==
    /\ fp' = st.fp
    /\ active' = st.active
    /\ wrapped_funcs' = st.wrapped_funcs
    /\ registered' = st.registered
    /\ recv_funcs' = st.recv_funcs
    /\ cmd_period' = st.cmd_period
    /\ notifications' = st.notifications
    /\ all_func_proxies' = st.all_func_proxies
    /\ calls' = st.calls
    /\ raised' = st.raised
    /\ reg_order' = st.reg_order
Raise(st, exc) == [st EXCEPT !.raised = exc]

\* list.index(x): the position of the first element equal to x, 0 if none
Index(list, x) ==
    IF \E i \in DOMAIN list : list[i] = x
    THEN CHOOSE i \in DOMAIN list :
            list[i] = x /\ \A j \in 1 .. (i - 1) : list[j] # x
    ELSE 0
RemoveAt(list, i) ==
    [j \in 1 .. (Len(list) - 1) |-> IF j < i THEN list[j] ELSE list[j + 1]]
\* the position of key in the dict, 0 if the dict has no such key
KeyIndex(items, key) ==
    IF \E i \in DOMAIN items : items[i].key = key
    THEN CHOOSE i \in DOMAIN items : items[i].key = key
    ELSE 0

\* OSCMessageDispatcher.wrap_func: the function itself when the OscFunc has no
\* selector, else a new matcher object (oid: its identity; one OscFunc has at
\* most one matcher in the lists at a time) around the function
wrap_func(p, h) ==
    [oid |-> IF p.src_id = NoneAddr /\ p.recv_port = NonePort
                /\ ~p.arg_template.given
             THEN 0 ELSE h,
     src_id |-> p.src_id, recv_port |-> p.recv_port,
     arg_template |-> p.arg_template, func |-> p.func]
get_keys_for_func_proxy(p) == p.path

register(st, d) ==
    [st EXCEPT !.recv_funcs = @ \cup {d}, !.registered[d] = TRUE]
unregister(st, d) ==
    [st EXCEPT !.recv_funcs = @ \ {d}, !.registered[d] = FALSE]

\* AbstractWrappingDispatcher.add
add(st, d, h) ==
    LET func == wrap_func(st.fp[h], h)
        key == get_keys_for_func_proxy(st.fp[h])
        i == KeyIndex(st.active[d], key)
        s1 == [st EXCEPT
                 !.notifications = @ \cup {<< h, d >>},
                 !.wrapped_funcs[d] =
                     [x \in (DOMAIN @) \cup {h} |->
                         IF x = h THEN func ELSE @[x]],
                 !.active[d] =
                     IF i # 0 THEN [@ EXCEPT ![i].funcs = Append(@, func)]
                     ELSE Append(@, [key |-> key, funcs |-> << func >>]),
                 !.reg_order[d] = Append(@, h)]
    IN  IF s1.registered[d] THEN s1 ELSE register(s1, d)

\* AbstractWrappingDispatcher.remove
remove(st, d, h) ==
    LET s1 == [st EXCEPT !.notifications = @ \ {<< h, d >>}]
        key == get_keys_for_func_proxy(st.fp[h])
        i == KeyIndex(st.active[d], key)
    IN  IF h \notin DOMAIN st.wrapped_funcs[d] THEN Raise(s1, "KeyError")
        ELSE IF i = 0 THEN Raise(s1, "KeyError")
        ELSE LET func == st.wrapped_funcs[d][h]
                 j == Index(st.active[d][i].funcs, func)
                 o == Index(st.reg_order[d], h)
             IN  IF j = 0 THEN Raise(s1, "ValueError")
                 ELSE LET s2 == [s1 EXCEPT
                                   !.active[d][i].funcs = RemoveAt(@, j),
                                   !.reg_order[d] =
                                       IF o = 0 THEN @ ELSE RemoveAt(@, o),
                                   !.wrapped_funcs[d] =
                                       [x \in (DOMAIN @) \ {h} |-> @[x]]]
                      IN  IF Len(s2.active[d]) = 0 THEN unregister(s2, d)
                          ELSE s2

\* AbstractWrappingDispatcher.update_func_for_func_proxy
update_func_for_func_proxy(st, d, h) ==
    LET func == wrap_func(st.fp[h], h)
        key == get_keys_for_func_proxy(st.fp[h])
        i == KeyIndex(st.active[d], key)
    IN  IF h \notin DOMAIN st.wrapped_funcs[d] THEN Raise(st, "KeyError")
        ELSE LET old_func == st.wrapped_funcs[d][h]
                 s1 == [st EXCEPT !.wrapped_funcs[d][h] = func]
             IN  IF i = 0 THEN Raise(s1, "KeyError")
                 ELSE LET j == Index(st.active[d][i].funcs, old_func)
                      IN  IF j = 0 THEN Raise(s1, "ValueError")
                          ELSE [s1 EXCEPT !.active[d][i].funcs[j] = func]

\* AbstractResponderFunc.func, the setter: NotificationCenter.notify calls
\* the action of each dispatcher registered for this OscFunc
func_setter(st, h, value) ==
    LET s1 == [st EXCEPT !.fp[h].func = value]
        d == st.fp[h].dispatcher
    IN  IF << h, d >> \in st.notifications
        THEN update_func_for_func_proxy(s1, d, h)
        ELSE s1

\* AbstractResponderFunc.permanent, the setter
permanent_setter(st, h, value) ==
    LET s1 == [st EXCEPT !.fp[h].permanent = value]
    IN  IF value /\ st.fp[h].enabled
        THEN [s1 EXCEPT !.cmd_period = @ \ {h}]
        ELSE [s1 EXCEPT !.cmd_period = @ \cup {h}]

\* AbstractResponderFunc.enable
enable_always(st, h) ==
    LET s1 == IF ~st.fp[h].permanent
              THEN [st EXCEPT !.cmd_period = @ \cup {h}]
              ELSE st
        s2 == add(s1, st.fp[h].dispatcher, h)
    IN  [s2 EXCEPT !.fp[h].enabled = TRUE,
                   !.all_func_proxies = @ \cup {h}]
enable(st, h) ==
    IF ~st.fp[h].enabled
    THEN LET s1 == IF ~st.fp[h].permanent
                   THEN [st EXCEPT !.cmd_period = @ \cup {h}]
                   ELSE st
             s2 == add(s1, st.fp[h].dispatcher, h)
         IN  [s2 EXCEPT !.fp[h].enabled = TRUE,
                        !.all_func_proxies = @ \cup {h}]
    ELSE st

\* AbstractResponderFunc.disable
disable(st, h) ==
    LET s1 == IF ~st.fp[h].permanent
              THEN [st EXCEPT !.cmd_period = @ \ {h}]
              ELSE st
        s2 == remove(s1, st.fp[h].dispatcher, h)
    IN  IF s2.raised # "none" THEN s2
        ELSE [s2 EXCEPT !.fp[h].enabled = FALSE]

\* AbstractResponderFunc.free
free_always_disables(st, h) ==
    disable([st EXCEPT !.all_func_proxies = @ \ {h}], h)
free(st, h) ==
    LET s1 == [st EXCEPT !.all_func_proxies = @ \ {h}]
    IN  IF s1.fp[h].enabled THEN disable(s1, h) ELSE s1

\* ---- responders: messages ------------------------------------------------------
\* NetAddr.addr == and, unless the OscFunc's NetAddr has no port, NetAddr.port ==
AddrMatches(src_id, addr) ==
    /\ src_id.addr = addr.addr
    /\ (src_id.port = NonePort \/ src_id.port = addr.port)
\* item != args[i], for an item that is a value or a function against an
\* argument that is a value: a function is not equal to a value
ItemNe(slot, arg) == slot.t = "function" \/ slot.v # arg
\* OSCArgsMatcher.__call__: "call" when the loop ends, "return" when an item
\* differs, "IndexError" when args has no element at the item's position
RECURSIVE ArgsMatcherFrom(_, _, _)
ArgsMatcherFrom(arg_template, args, i) ==
    IF i > Len(arg_template) THEN "call"
    ELSE IF arg_template[i].t = "None"
         THEN ArgsMatcherFrom(arg_template, args, i + 1)
    ELSE IF i > Len(args) THEN "IndexError"
    ELSE IF ItemNe(arg_template[i], args[i]) THEN "return"
    ELSE ArgsMatcherFrom(arg_template, args, i + 1)
OSCArgsMatcher(arg_template, args) == ArgsMatcherFrom(arg_template, args, 1)
\* what a wrapped function does with a message: the matcher wrap_func put
\* outermost, then the OSCArgsMatcher inside it, then the responder function
Wrapped(w, msg) ==
    IF w.src_id # NoneAddr /\ ~AddrMatches(w.src_id, msg.addr) THEN "return"
    ELSE IF w.recv_port # NonePort /\ w.recv_port # msg.recv_port
         THEN "return"
    ELSE IF w.arg_template.given
         THEN OSCArgsMatcher(w.arg_template.slots, msg.args)
    ELSE "call"

\* fn.value(func, ...) on a responder function: None is not called; a
\* one_shot_func frees its OscFunc and then calls the function it wraps; a
\* function of the program's user is called, and one that frees an OscFunc
\* does so
Value(st, func) ==
    IF func.kind = "None" THEN st
    ELSE LET s0 == IF func.os # 0 THEN free(st, func.os) ELSE st
             s1 == [s0 EXCEPT !.calls =
                       Append(@, [func |-> func,
                                  live |-> IF func.os # 0
                                           THEN s0.fp[func.os].enabled
                                           ELSE FALSE])]
         IN  IF s0.raised # "none" THEN s0
             ELSE IF func.frees # 0 THEN free(s1, func.frees)
             ELSE s1
CallWrapped(st, w, msg) ==
    LET out == Wrapped(w, msg)
    IN  IF out = "call" THEN Value(st, w.func)
        ELSE IF out = "return" THEN st
        ELSE Raise(st, out)
\* for func in self.active[key]: fn.value(func, ...), the list iterator
\* reading the list as it is at each step
RECURSIVE ForFuncIn(_, _, _, _, _)
ForFuncIn(st, d, k, i, msg) ==
    IF st.raised # "none" \/ i > Len(st.active[d][k].funcs) THEN st
    ELSE ForFuncIn(CallWrapped(st, st.active[d][k].funcs[i], msg),
                   d, k, i + 1, msg)
\* OSCMessageDispatcher.__call__
OSCMessageDispatcher(st, d, msg) ==
    LET k == KeyIndex(st.active[d], msg.path)
    IN  IF k # 0 THEN ForFuncIn(st, d, k, 1, msg) ELSE st
\* _match_osc_address_pattern(pattern, key): the pattern is the key, or the
\* pattern's only part is the wildcard
OscMatch(pattern, key) == pattern = key \/ pattern = << "/", "*" >>
\* OSCMessagePatternDispatcher.__call__
RECURSIVE ForKeyIn(_, _, _, _)
ForKeyIn(st, d, k, msg) ==
    IF st.raised # "none" \/ k > Len(st.active[d]) THEN st
    ELSE IF OscMatch(msg.path, st.active[d][k].key)
         THEN ForKeyIn(ForFuncIn(st, d, k, 1, msg), d, k + 1, msg)
    ELSE ForKeyIn(st, d, k + 1, msg)
OSCMessagePatternDispatcher(st, d, msg) == ForKeyIn(st, d, 1, msg)

\* ---- responders: operations ----------------------------------------------------
\* the functions the program's user writes: f1 .. fNFuncs do nothing to the
\* responders, k frees the first OscFunc constructed
NFuncs == 1
PlainFuncs ==
    {[kind |-> "user", name |-> n, frees |-> 0, os |-> 0] : n \in 1 .. NFuncs}
FreeingFunc == [kind |-> "user", name |-> 0, frees |-> 1, os |-> 0]
UserFuncs == PlainFuncs \cup {FreeingFunc}
PathArgs == {<< "a" >>, << "/", "b" >>}
RecvPortArgs == {NonePort, 57120}
Sender == [addr |-> "127.0.0.1", port |-> 57110]
Msgs(d) ==
    [path : {<< "/", "a" >>, << "/", "b" >>}
            \cup (IF d = "matching" THEN {<< "/", "*" >>} ELSE {}),
     addr : {Sender}, recv_port : {57120, 57121}, args : {<< >>}]
\* the states of an OscFunc: not constructed, enabled, disabled, and freed
\* (disabled and not in the set of all OscFuncs)
StateOf(h) ==
    IF h \notin Handles THEN "new"
    ELSE IF ~fp[h].made THEN "new"
    ELSE IF fp[h].enabled THEN "enabled"
    ELSE IF h \in all_func_proxies THEN "disabled"
    ELSE "freed"
Did(name, h, d, msg) ==
    /\ op' = [name |-> name, h |-> h,
              was |-> StateOf(h),
              d |-> d, msg |-> msg]
    /\ UNCHANGED << cvars, m_in, m_out, tvars >>
\* a function that frees an OscFunc names an object that exists when the
\* function is called
Names(func, h) == func.frees \in {0, h} \cup {x \in Handles : fp[x].made}

\* OscFunc.__init__; the OscFuncs are numbered in the order of construction
OscFuncInit(h, func, path, recv_port, d) ==
    /\ ~fp[h].made
    /\ IF h = 1 THEN TRUE ELSE fp[h - 1].made
    /\ Names(func, h)
    /\ LET p == [NoProxy EXCEPT
                   !.made = TRUE,
                   !.path = IF path[1] # "/" THEN << "/" >> \o path ELSE path,
                   !.recv_port = recv_port,
                   !.func = func,
                   !.dispatcher = d]
       IN  Becomes(enable([RState EXCEPT !.fp[h] = p], h))
    /\ Did("init", h, d, NoMsg)
\* OscFunc.matching: it passes six arguments by position to __init__, which
\* takes at most three, and the call raises TypeError before __init__ runs
Matching(h) ==
    /\ ~fp[h].made
    /\ Becomes(Raise(RState, "TypeError"))
    /\ Did("matching", h, "matching", NoMsg)
Enable(h) ==
    /\ fp[h].made
    /\ Becomes(enable(RState, h))
    /\ Did("enable", h, fp[h].dispatcher, NoMsg)
Disable(h) ==
    /\ fp[h].made
    /\ Becomes(disable(RState, h))
    /\ Did("disable", h, fp[h].dispatcher, NoMsg)
Free(h) ==
    /\ fp[h].made
    /\ Becomes(free(RState, h))
    /\ Did("free", h, fp[h].dispatcher, NoMsg)
SetFunc(h, func) ==
    /\ fp[h].made
    /\ Names(func, h)
    /\ Becomes(func_setter(RState, h, func))
    /\ Did("func", h, fp[h].dispatcher, NoMsg)
SetPermanent(h, value) ==
    /\ fp[h].made
    /\ Becomes(permanent_setter(RState, h, value))
    /\ Did("permanent", h, fp[h].dispatcher, NoMsg)
\* AbstractResponderFunc.one_shot, of an OscFunc whose function is one of the
\* user's: the new function is a one_shot_func around it
OneShot(h) ==
    /\ fp[h].made
    /\ fp[h].func.kind = "user" /\ fp[h].func.os = 0
    /\ Becomes(func_setter(RState, h, [fp[h].func EXCEPT !.os = h]))
    /\ Did("one_shot", h, fp[h].dispatcher, NoMsg)
\* CmdPeriod.run(): each action CmdPeriod holds when it is run is called,
\* and the action of an OscFunc, __on_cmd_period, frees it
RECURSIVE OnCmdPeriod(_, _)
OnCmdPeriod(st, actions) ==
    IF actions = {} \/ st.raised # "none" THEN st
    ELSE LET h == CHOOSE x \in actions : TRUE
         IN  OnCmdPeriod(free(st, h), actions \ {h})
CmdPeriodRun ==
    /\ Becomes(OnCmdPeriod(RState, cmd_period))
    /\ Did("cmd_period", 0, "None", NoMsg)
\* the dispatcher called by main with an incoming message
DispatcherCall(d, msg) ==
    /\ d \in recv_funcs
    /\ Becomes(IF d = "matching"
               THEN OSCMessagePatternDispatcher(RState, d, msg)
               ELSE OSCMessageDispatcher(RState, d, msg))
    /\ Did("call", 0, d, msg)

\* a program whose OscFuncs all use the dispatcher d, are made with
\* functions of funcs and receive ports of ports
ResponderNext(d, funcs, ports) ==
    \/ \E h \in Handles, func \in funcs, path \in PathArgs,
          recv_port \in ports :
            OscFuncInit(h, func, path, recv_port, d)
    \/ \E h \in Handles : Matching(h)
    \/ \E h \in Handles : Enable(h)
    \/ \E h \in Handles : Disable(h)
    \/ \E h \in Handles : Free(h)
    \/ \E h \in Handles, func \in funcs : SetFunc(h, func)
    \/ \E h \in Handles, value \in BOOLEAN : SetPermanent(h, value)
    \/ \E msg \in Msgs(d) : DispatcherCall(d, msg)
DefaultSpec ==
    Init /\ [][ResponderNext("default", UserFuncs, RecvPortArgs)]_vars
MatchingSpec ==
    Init /\ [][ResponderNext("matching", UserFuncs, RecvPortArgs)]_vars
\* a program that also makes OscFuncs one-shot and runs CmdPeriod
LifecycleNext ==
    \/ ResponderNext("default", PlainFuncs, {NonePort})
    \/ \E h \in Handles : OneShot(h)
    \/ CmdPeriodRun
LifecycleSpec == Init /\ [][LifecycleNext]_vars

\* ---- responders: properties ----------------------------------------------------
Range(seq) == {seq[i] : i \in DOMAIN seq}
IsCall(d) == op'.name = "call" /\ op'.d = d
\* a message with msg's selectors and arguments is one the responder function
\* of the OscFunc h is to get
Accepts(h, msg) ==
    /\ Wrapped(wrap_func(fp[h], h), msg) = "call"
    /\ fp[h].func # NoneFunc
\* the OscFuncs registered with d under the k-th key, in registration order
RegisteredUnder(d, k) ==
    LET Test(h) == fp[h].path = active[d][k].key
    IN  SelectSeq(reg_order[d], Test)
\* the responder functions msg is to call under the k-th key of d, in order
ExpectedUnder(d, k, msg) ==
    LET Test(h) == Accepts(h, msg)
        receivers == SelectSeq(RegisteredUnder(d, k), Test)
    IN  [i \in 1 .. Len(receivers) |->
            [func |-> fp[receivers[i]].func, live |-> FALSE]]
ExpectedCalls(d, msg) ==
    IF KeyIndex(active[d], msg.path) = 0 THEN << >>
    ELSE ExpectedUnder(d, KeyIndex(active[d], msg.path), msg)

\* C11: a message the default dispatcher gets calls the responder function
\* of every OscFunc registered under the message's address once, in the
\* order of registration, and no function registered under another address
C11_ExactKeyDispatch ==
    [][IsCall("default") => calls' = ExpectedCalls("default", op'.msg)]_vars

\* C12: of the OscFuncs registered under the address of a message the default
\* dispatcher gets, each one still enabled after the dispatch (one that no
\* responder function freed during it) has had its responder function called
C12_FreeDuringDispatch ==
    [][IsCall("default") =>
        \A h \in Range(reg_order["default"]) :
            (fp[h].path = op'.msg.path /\ Accepts(h, op'.msg)
                /\ fp'[h].enabled)
                => [func |-> fp[h].func, live |-> FALSE] \in Range(calls')]_vars

\* the wrapped functions the dispatcher d holds under all its keys
Entries(d) == UNION {Range(active[d][k].funcs) : k \in DOMAIN active[d]}

\* C13: a dispatcher is registered with main for incoming messages exactly
\* when it holds at least one wrapped function
C13_AttachedIffRegistration ==
    \A d \in Dispatchers : registered[d] <=> (Entries(d) # {})

\* C14: no key of a dispatcher's active dict has an empty list
C14_NoEmptyList ==
    \A d \in Dispatchers :
        \A k \in DOMAIN active[d] : active[d][k].funcs # << >>

\* each list of the dispatcher d holds the wrapped functions of the OscFuncs
\* registered under its key, each at the position of its registration
InPlace(d) ==
    \A k \in DOMAIN active[d] :
        active[d][k].funcs =
            [j \in 1 .. Len(RegisteredUnder(d, k)) |->
                wrapped_funcs[d][RegisteredUnder(d, k)[j]]]

\* C15: setting the function of an enabled OscFunc puts the new wrapped
\* function at the position of that OscFunc's registration and leaves every
\* other entry where it was, OscFuncs with one common function included
C15_UpdateInPlace ==
    [][(op'.name = "func" /\ fp[op'.h].enabled /\ InPlace("default"))
        => InPlace("default")']_vars

\* the responder functions msg is to call under the keys of d from the k-th
\* on that the address pattern of msg matches, key after key
RECURSIVE ExpectedFrom(_, _, _)
ExpectedFrom(d, k, msg) ==
    IF k > Len(active[d]) THEN << >>
    ELSE (IF OscMatch(msg.path, active[d][k].key)
          THEN ExpectedUnder(d, k, msg) ELSE << >>)
            \o ExpectedFrom(d, k + 1, msg)

\* C18: a message the matching dispatcher gets calls, for each key its
\* address pattern matches, the responder functions registered under the key
\* once each in the order of registration, and no function of another key
C18_PatternDispatch ==
    [][IsCall("matching") => calls' = ExpectedFrom("matching", 1, op'.msg)]_vars

\* the attributes of the dispatchers and the OscFuncs, CmdPeriod's actions,
\* the NotificationCenter's registrations and the set of all OscFuncs
registry == << fp, active, wrapped_funcs, registered, recv_funcs, cmd_period,
               notifications, all_func_proxies >>
\* the list a dispatcher's dict holds under key
Under(items, key) ==
    IF KeyIndex(items, key) = 0 THEN << >>
    ELSE items[KeyIndex(items, key)].funcs

\* C19: enable() on an enabled OscFunc changes nothing; enable() on a disabled
\* OscFunc that is in the set of all OscFuncs appends its wrapped function to
\* the list of its key, sets enabled and, unless the OscFunc is permanent,
\* gives its __on_cmd_period to CmdPeriod
C19_Enable ==
    [][op'.name = "enable" =>
        LET h == op'.h
            d == fp[h].dispatcher
        IN  /\ raised' = "none"
            /\ fp[h].enabled => UNCHANGED registry
            /\ (~fp[h].enabled /\ h \in all_func_proxies) =>
                /\ fp' = [fp EXCEPT ![h].enabled = TRUE]
                /\ Under(active'[d], fp[h].path) =
                       Append(Under(active[d], fp[h].path),
                              wrap_func(fp[h], h))
                /\ wrapped_funcs'[d][h] = wrap_func(fp[h], h)
                /\ cmd_period' =
                       IF fp[h].permanent THEN cmd_period
                       ELSE cmd_period \cup {h}
                /\ all_func_proxies' = all_func_proxies]_vars
\* enable() has been called on an enabled OscFunc registered after another
C19_Witness ==
    /\ op.name = "enable" /\ op.was = "enabled"
    /\ Len(reg_order["default"]) = 2
    /\ reg_order["default"][2] = op.h
\* C20: disable() on a disabled OscFunc raises nothing and changes nothing;
\* disable() on an enabled OscFunc removes its wrapped function from the
\* dispatcher and its __on_cmd_period from CmdPeriod
C20_Disable ==
    [][op'.name = "disable" =>
        LET h == op'.h
            d == fp[h].dispatcher
        IN  /\ raised' = "none"
            /\ ~fp[h].enabled => UNCHANGED registry
            /\ fp[h].enabled =>
                /\ ~fp'[h].enabled
                /\ h \notin DOMAIN wrapped_funcs'[d]
                /\ h \notin cmd_period']_vars

\* C21: free() raises nothing and leaves the OscFunc disabled, without a
\* wrapped function in its dispatcher and out of the set of all OscFuncs;
\* on an OscFunc that is freed it changes nothing
C21_FreeIdempotent ==
    [][op'.name = "free" =>
        LET h == op'.h
            d == fp[h].dispatcher
        IN  /\ raised' = "none"
            /\ ~fp'[h].enabled
            /\ h \notin DOMAIN wrapped_funcs'[d]
            /\ h \notin Range(reg_order'[d])
            /\ Len(Under(active'[d], fp[h].path)) =
                   Len(Under(active[d], fp[h].path))
                       - (IF fp[h].enabled THEN 1 ELSE 0)
            /\ h \notin all_func_proxies'
            /\ StateOf(h) = "freed" => UNCHANGED registry]_vars
\* free() has been called on a freed OscFunc while another one is enabled
C21_Witness ==
    /\ op.name = "free" /\ op.was = "freed"
    /\ \E h \in Handles : h # op.h /\ fp[h].enabled

\* C22: enable() on a freed OscFunc raises an error, and neither registers
\* the OscFunc with its dispatcher nor puts it in the set of all OscFuncs
C22_EnableAfterFree ==
    [][(op'.name = "enable" /\ StateOf(op'.h) = "freed") =>
        /\ raised' # "none"
        /\ UNCHANGED registry]_vars

\* C23: a message the dispatcher gets calls, for each enabled one-shot
\* OscFunc registered under its address, the function the one_shot_func wraps
\* once, with the OscFunc freed before that call and out of the set of all
\* OscFuncs after it
C23_OneShot ==
    [][IsCall("default") =>
        \A h \in Handles :
            (fp[h].enabled /\ fp[h].func.os = h /\ fp[h].path = op'.msg.path
                /\ Accepts(h, op'.msg))
                => /\ Cardinality({i \in DOMAIN calls' :
                                      calls'[i].func = fp[h].func}) = 1
                   /\ \A i \in DOMAIN calls' : ~calls'[i].live
                   /\ ~fp'[h].enabled
                   /\ h \notin all_func_proxies']_vars

\* C24: CmdPeriod.run() frees every OscFunc of the set of all OscFuncs
\* that is not permanent, and leaves every enabled permanent OscFunc
\* enabled, registered with its dispatcher and in the set
C24_CmdPeriod ==
    [][op'.name = "cmd_period" =>
        \A h \in Handles :
            /\ (h \in all_func_proxies /\ ~fp[h].permanent)
                => /\ h \notin all_func_proxies'
                   /\ ~fp'[h].enabled
                   /\ h \notin DOMAIN wrapped_funcs'[fp[h].dispatcher]
            /\ (fp[h].enabled /\ fp[h].permanent)
                => /\ fp'[h].enabled
                   /\ h \in DOMAIN wrapped_funcs'[fp[h].dispatcher]
                   /\ h \in all_func_proxies']_vars

\* the OscFuncs with a wrapped function in dispatcher d are those of
\* the set hs, the list of each key has as many entries as OscFuncs
\* registered with that path, and the wrapped function of each is in the
\* list of its path
OneEach(d, wf, act, hs) ==
    /\ DOMAIN wf = hs
    /\ \A k \in DOMAIN act :
           Len(act[k].funcs) =
               Cardinality({h \in hs : fp[h].path = act[k].key})
    /\ \A h \in hs : wf[h] \in Range(Under(act, fp[h].path))
\* C25: after every operation an OscFunc owns one wrapped function in its
\* dispatcher if it is enabled and none if it is disabled or freed, and an
\* OscFunc that was freed before the operation owns none after it: free is
\* the last state of an OscFunc
C25_OneRegistration ==
    [][\A d \in Dispatchers :
        /\ OneEach(d, wrapped_funcs[d], active[d],
                   {h \in Handles : fp[h].enabled /\ fp[h].dispatcher = d})
        /\ \A h \in Handles :
               (fp[h].dispatcher = d /\ StateOf(h) = "freed")
                   => h \notin DOMAIN wrapped_funcs'[d]]_vars

\* ---- matchers: one wrapped function and one message ---------------------------
\* the longest argument template and the longest argument list drawn
MaxTemplate == 2
MaxArgs == 2
SeqsUpTo(S, n) == UNION {[1 .. k -> S] : k \in 0 .. n}
ArgValues == {1, 2}
\* an item of a template: None, a value, or the function lambda x: x >= v
Items ==
    {[t |-> "None", v |-> 0]}
        \cup {[t |-> "value", v |-> v] : v \in ArgValues}
        \cup {[t |-> "function", v |-> 2]}
ArgTemplateArgs ==
    {NoneTemplate}
        \cup {[given |-> TRUE, slots |-> t] : t \in SeqsUpTo(Items, MaxTemplate)}
MatchInputs ==
    [src_id : {NoneAddr, [addr |-> "127.0.0.1", port |-> NonePort], Sender},
     recv_port : RecvPortArgs,
     arg_template : ArgTemplateArgs,
     addr : {Sender, [addr |-> "127.0.0.1", port |-> 57111],
             [addr |-> "10.0.0.1", port |-> 57110]},
     port : {57120, 57121},
     args : SeqsUpTo(ArgValues, MaxArgs)]
MatcherInit ==
    /\ ClockInit
    /\ ResponderInit
    /\ m_in \in MatchInputs
    /\ m_out = "none"
    /\ TimeInit
\* the OscFunc of m_in, as __init__ makes it, and the message of m_in
MatchProxy ==
    [NoProxy EXCEPT !.made = TRUE, !.path = << "/", "a" >>,
                    !.src_id = m_in.src_id, !.recv_port = m_in.recv_port,
                    !.arg_template = m_in.arg_template,
                    !.func = CHOOSE f \in PlainFuncs : TRUE]
MatchMsg ==
    [path |-> << "/", "a" >>, addr |-> m_in.addr, recv_port |-> m_in.port,
     args |-> m_in.args]
\* fn.value(func, msg, time, addr, recv_port) on the function wrap_func returns
Deliver ==
    /\ m_out = "none"
    /\ m_out' = Wrapped(wrap_func(MatchProxy, 1), MatchMsg)
    /\ UNCHANGED << cvars, fp, active, wrapped_funcs, registered, recv_funcs,
                    cmd_period, notifications, all_func_proxies, calls,
                    raised, op, reg_order, m_in, tvars >>
MatcherSpec == MatcherInit /\ [][Deliver]_vars

\* what the OscFunc's documentation asks of each selector
ItemMatches(slot, args, i) ==
    \/ slot.t = "None"
    \/ /\ i \in DOMAIN args
       /\ IF slot.t = "function" THEN args[i] >= slot.v
          ELSE slot.v = args[i]
TemplateMatches ==
    m_in.arg_template.given =>
        \A i \in DOMAIN m_in.arg_template.slots :
            ItemMatches(m_in.arg_template.slots[i], m_in.args, i)
SrcIdMatches ==
    m_in.src_id # NoneAddr => AddrMatches(m_in.src_id, m_in.addr)
RecvPortMatches ==
    m_in.recv_port # NonePort => m_in.recv_port = m_in.port

\* C16: the responder function is called if and only if every selector the
\* OscFunc was given matches the message; with no selector it is called
C16_SelectorsAnd ==
    m_out # "none" =>
        ((m_out = "call") <=>
            (SrcIdMatches /\ RecvPortMatches /\ TemplateMatches))

\* C17: for a message the other selectors accept, an OscFunc with a template
\* has its function called if and only if every item that is not None equals
\* the argument at its position or, being a function, holds of it
C17_TemplateMatch ==
    (m_out # "none" /\ m_in.arg_template.given /\ SrcIdMatches
        /\ RecvPortMatches)
        => ((m_out = "call") <=> TemplateMatches)

\* ---- time conversions (src/clock.py) ------------------------------------------
\* A float is held as a whole number of units of 2^-(FracBits + MantBits)
\* seconds, a number a float holds when it has at most MantBits significant
\* bits; an OSC time is an int, a whole number of 2^-FracBits seconds.
RECURSIVE BitLength(_)
BitLength(n) == IF n = 0 THEN 0 ELSE 1 + BitLength(n \div 2)
\* the float nearest to the number x >= 0, ties to the even one: float(int)
\* and the result of a float multiplication
RoundToFloat(x) ==
    IF BitLength(x) <= MantBits THEN x
    ELSE LET q == 2 ^ (BitLength(x) - MantBits)
             r == x % q
             lo == x - r
         IN  IF 2 * r < q THEN lo
             ELSE IF 2 * r > q THEN lo + q
             ELSE IF (lo \div q) % 2 = 0 THEN lo
             ELSE lo + q
\* _OSC_TO_SECONDS, in units: the literal 2.328306436538696e-10 is not
\* 1 / 2^32, its float is 0x1.fffffffffffffp-33, the float below 2^-32
OSC_TO_SECONDS == 2 ^ MantBits - 1
\* elapsed_time_to_osc: elapsed * _SECONDS_TO_OSC is exact, a multiplication
\* by a power of two; int() drops the fraction of a float >= 0; the ints of
\* Python have no width
elapsed_time_to_osc(elapsed, offset) == (elapsed \div 2 ^ MantBits) + offset
\* osc_to_elapsed_time
osc_to_elapsed_time(osctime, offset) ==
    RoundToFloat(RoundToFloat(osctime - offset) * OSC_TO_SECONDS)

\* the elapsed times are the floats from 0 to twice the time from which the
\* floats are coarser than one unit of OSC time; two values of
\* _elapsed_osc_offset
ConvInit ==
    /\ ClockInit
    /\ ResponderInit
    /\ m_in = NoMatch /\ m_out = "none"
    /\ host_osc_offset = 0 /\ elapsed_osc_offset = HostStartOsc
    /\ run_resync = FALSE /\ rt = [pc |-> "start", cleanup |-> "idle",
                                   notified |-> FALSE, woke |-> "none",
                                   resyncs |-> 0]
    /\ rdr = [pc |-> "idle", seen |-> 0, valid |-> {}]
    /\ instance = 0
    /\ new = [a \in 1 .. NAttempts |-> "idle"]
    /\ conv \in [t : {x \in 0 .. 2 ^ (MantBits - FracBits + 1)
                                      * 2 ^ (FracBits + MantBits) :
                          RoundToFloat(x) = x},
                 offset : {0, 2 ^ (FracBits + MantBits) + 1},
                 osc : {0}, back : {0}, done : {FALSE}]
\* osc_to_elapsed_time(elapsed_time_to_osc(t))
Convert ==
    /\ ~conv.done
    /\ conv' = [conv EXCEPT
                   !.osc = elapsed_time_to_osc(conv.t, conv.offset),
                   !.back = osc_to_elapsed_time(
                                elapsed_time_to_osc(conv.t, conv.offset),
                                conv.offset),
                   !.done = TRUE]
    /\ UNCHANGED << cvars, rvars, host_osc_offset, elapsed_osc_offset,
                    run_resync, rt, rdr, instance, new >>
ConvSpec == ConvInit /\ [][Convert]_vars

\* C26: the OSC time of an elapsed time t is floor(t * 2^FracBits) + offset,
\* and the elapsed time of that OSC time is t to within 2^-FracBits seconds,
\* which is 2^MantBits units
C26_RoundTrip ==
    conv.done =>
        /\ conv.osc = (conv.t * 2 ^ FracBits) \div 2 ^ (FracBits + MantBits)
                          + conv.offset
        /\ conv.back - conv.t <= 2 ^ MantBits
        /\ conv.t - conv.back <= 2 ^ MantBits

\* ---- the resynchronizer (src/clock.py) ----------------------------------------
\* _resync_thread_func, a step for every access to the state the threads
\* share.  _sync_osc_offset_with_tod computes the offset from a new sample of
\* the clocks and assigns _host_osc_offset; the samples are numbered, and
\* from MaxResync on they are not told apart.  A wait ends when the thread
\* has been notified or, after 20 seconds, by its timeout.
ResyncThread ==
    /\ \/ /\ rt.pc = "start"
          /\ run_resync' = TRUE
          /\ rt' = [rt EXCEPT !.pc = "test"]
          /\ UNCHANGED << host_osc_offset, elapsed_osc_offset, rdr >>
       \/ /\ rt.pc = "test"
          /\ rt' = [rt EXCEPT !.pc = IF run_resync THEN "with" ELSE "done"]
          /\ UNCHANGED << host_osc_offset, elapsed_osc_offset, run_resync,
                          rdr >>
       \/ /\ rt.pc = "with"
          /\ rt' = [rt EXCEPT !.pc = "wait", !.notified = FALSE]
          /\ UNCHANGED << host_osc_offset, elapsed_osc_offset, run_resync,
                          rdr >>
       \/ /\ rt.pc = "wait"
          /\ rt' = [rt EXCEPT !.pc = "check",
                              !.woke = IF rt.notified THEN "notify"
                                       ELSE "timeout"]
          /\ UNCHANGED << host_osc_offset, elapsed_osc_offset, run_resync,
                          rdr >>
       \/ /\ rt.pc = "check"
          /\ rt' = [rt EXCEPT !.pc = IF run_resync THEN "sync" ELSE "done"]
          /\ UNCHANGED << host_osc_offset, elapsed_osc_offset, run_resync,
                          rdr >>
       \/ /\ rt.pc = "sync"
          /\ host_osc_offset' = Min(host_osc_offset + 1, MaxResync)
          /\ rt' = [rt EXCEPT !.pc = "assign"]
          /\ UNCHANGED << elapsed_osc_offset, run_resync, rdr >>
       \/ /\ rt.pc = "assign"
          /\ elapsed_osc_offset' = HostStartOsc + host_osc_offset
          /\ rt' = [rt EXCEPT !.pc = "test",
                              !.resyncs = Min(@ + 1, MaxResync)]
          /\ rdr' = IF rdr.pc = "idle" THEN rdr
                    ELSE [rdr EXCEPT !.valid = @ \cup {elapsed_osc_offset'}]
          /\ UNCHANGED << host_osc_offset, run_resync >>
    /\ UNCHANGED << cvars, rvars, conv, instance, new >>
\* _sched_cleanup: the with block holds the lock of _resync_cond, which the
\* resync thread needs to begin a wait and to return from one, so the
\* assignment and notify() are one step; then join()
SchedCleanup ==
    /\ \/ /\ rt.cleanup = "idle"
          /\ run_resync' = FALSE
          /\ rt' = [rt EXCEPT !.cleanup = "join",
                              !.notified = (rt.pc = "wait") \/ @]
       \/ /\ rt.cleanup = "join"
          /\ rt.pc = "done"
          /\ rt' = [rt EXCEPT !.cleanup = "returned"]
          /\ UNCHANGED run_resync
    /\ UNCHANGED << cvars, rvars, conv, host_osc_offset, elapsed_osc_offset,
                    rdr, instance, new >>
\* self._elapsed_osc_offset in a conversion: one load of the attribute
LoadOffset_parts == HostStartOsc + host_osc_offset
LoadOffset == elapsed_osc_offset
\* elapsed_time_to_osc or osc_to_elapsed_time called by another thread: the
\* call, the load of the offset, the arithmetic and the return
Conversion ==
    /\ \/ /\ rdr.pc = "idle"
          /\ rdr' = [pc |-> "load", seen |-> 0,
                     valid |-> {elapsed_osc_offset}]
       \/ /\ rdr.pc = "load"
          /\ rdr' = [rdr EXCEPT !.pc = "return", !.seen = LoadOffset]
       \/ /\ rdr.pc = "return"
          /\ rdr' = [rdr EXCEPT !.pc = "idle"]
    /\ UNCHANGED << cvars, rvars, conv, host_osc_offset, elapsed_osc_offset,
                    run_resync, rt, instance, new >>
ResyncNext == ResyncThread \/ SchedCleanup \/ Conversion
ResyncSpec == Init /\ [][ResyncNext]_vars
\* the threads of the interpreter all get to run
ResyncFairSpec ==
    ResyncSpec /\ WF_vars(ResyncThread) /\ WF_vars(SchedCleanup)
        /\ WF_vars(Conversion)

\* C27: the offset a conversion uses is a value _elapsed_osc_offset has had
\* between the call and the return, the one before a resync or the one after
\* it, each the sum of the two parts of one sample
C27_NoTornOffset ==
    rdr.pc = "return" =>
        /\ rdr.seen \in rdr.valid
        /\ \A o \in rdr.valid : o - HostStartOsc \in 0 .. MaxResync
\* a conversion has loaded the offset a resync assigned after the conversion
\* was called
C27_Witness ==
    /\ rdr.pc = "return"
    /\ Cardinality(rdr.valid) = 2
    /\ rdr.seen = HostStartOsc + host_osc_offset
    /\ rdr.seen > HostStartOsc

\* C28: a resync follows a wait of 20 seconds that ended by its timeout while
\* _sched_cleanup had not been called; once _sched_cleanup has signalled the
\* stop no wait ends by its timeout and no resync begins, the thread ends and
\* _sched_cleanup returns
C28_StopResync ==
    /\ [][/\ (rt.pc = "check" /\ rt'.pc = "sync") => rt.woke = "timeout"
          /\ rt.cleanup # "idle" =>
                /\ ~(rt.pc = "wait" /\ rt'.woke = "timeout" /\ rt'.pc = "check")
                /\ rt'.pc # "sync"]_vars
    /\ (rt.cleanup = "join") ~> (rt.cleanup = "returned" /\ rt.pc = "done")

\* ---- SystemClock.__new__ (src/clock.py) ---------------------------------------
\* The calls of SystemClock() of a program that has no SystemClock yet, each
\* from a thread of its own: the test of _instance; the object made and its
\* thread started, which runs run(); _sched_init, which starts the resync
\* thread of the object; the assignment of _instance.  A call that finds an
\* instance raises.
New(a) ==
    /\ \/ /\ new[a] = "idle"
          /\ new' = [new EXCEPT ![a] = IF instance = 0 THEN "make"
                                       ELSE "raised"]
          /\ UNCHANGED instance
       \/ /\ new[a] = "make"
          /\ new' = [new EXCEPT ![a] = "started"]
          /\ UNCHANGED instance
       \/ /\ new[a] = "started"
          /\ new' = [new EXCEPT ![a] = "inited"]
          /\ UNCHANGED instance
       \/ /\ new[a] = "inited"
          /\ instance' = a
          /\ new' = [new EXCEPT ![a] = "returned"]
    /\ UNCHANGED << cvars, rvars, conv, host_osc_offset, elapsed_osc_offset,
                    run_resync, rt, rdr >>
NewSpec == Init /\ [][\E a \in 1 .. NAttempts : New(a)]_vars

\* C29: of the calls of SystemClock() at most one has started a thread that
\* runs run(), it is the one that returns the instance, and every other call
\* that has ended has raised
C29_OneInstance ==
    /\ Cardinality({a \in 1 .. NAttempts :
                       new[a] \in {"started", "inited", "returned"}}) <= 1
    /\ \A a \in 1 .. NAttempts : new[a] = "returned" => instance = a

\* ---- run(): the pass over the entries that are due ----------------------------
\* the positions of run() in its third loop, the call of _sched_add included
InPass == {"l3_empty", "l3_peek", "l3_get", "l3_exec"} \cup InSchedAdd
\* the entries of the queue with _time_of_initialization + secs <= sample
DueAt(sample) ==
    {i \in 1 .. Len(task_queue) :
        TAdd(TimeOfInit, task_queue[i].time) <= sample}
\* C30: run() leaves its second loop by the break with the wall clock it has
\* just sampled in now and with an entry due at it; now keeps that value as
\* long as run() is in its third loop; and run() leaves the third loop for
\* the waits of the first two only when no entry of the queue is due at now
C30_DrainsDueEntries ==
    [][/\ (pc["loop"] = "l2_sample" /\ pc'["loop"] = "l3_empty")
            => (now_l' = now /\ DueAt(now_l') # {})
       /\ (pc["loop"] \in InPass /\ pc'["loop"] \in InPass)
            => now_l' = now_l
       /\ (pc["loop"] \in InPass /\ pc'["loop"] = "l1_empty")
            => DueAt(now_l) = {}]_vars
\* in a pass with a sample of the wall clock run() has popped an entry, the
\* task has returned 0 and _sched_add has put it back in the queue, where it
\* is due at the sample of the pass
C30_Witness ==
    /\ pc["loop"] = "sa_cmp"
    /\ now_l >= 1
    /\ delta = 0
    /\ item.task = sa["loop"].task
    /\ \E i \in DueAt(now_l) :
          /\ task_queue[i].seq = next_seq - 1
          /\ task_queue[i].task = item.task
          /\ task_queue[i].time = item.time

\* C31: the entry run() pops is due: _time_of_initialization + its time is
\* not after the sample run() holds in now, nor after the wall clock
C31_NeverEarly ==
    [][PopStep => /\ TAdd(TimeOfInit, item'.time) <= now_l
                  /\ TAdd(TimeOfInit, item'.time) <= now]_vars

\* C32: no entry of the queue has the time math.inf
C32_NoInfiniteEntry ==
    \A i \in 1 .. Len(task_queue) : task_queue[i].time # Inf
====
